---- MODULE Spec2Model ----
(***************************************************************************)
(* Model of src/ipfs-daemon.js: the IpfsDaemon supervisor class.           *)
(*                                                                         *)
(* One Node.js process hosts up to NumInst IpfsDaemon instances.  The      *)
(* process is single threaded: every action below is one synchronous run   *)
(* of a handler (the constructor, stop(), a callback of the external       *)
(* controller, a signal or an uncaught exception), together with the       *)
(* promise reactions (microtasks) that the handler makes runnable, since   *)
(* these run before any other handler can start.                           *)
(***************************************************************************)
EXTENDS Integers, Sequences, FiniteSets, TLC

VARIABLES
  pc,              \* per instance: where its startup promise chain stands
  GatewayAddress,  \* per instance: this.GatewayAddress
  APIAddress,      \* per instance: this.APIAddress
  _options,        \* per instance: this._options
  _daemon,         \* per instance: this._daemon
  api,             \* per instance: TRUE once the API client is merged onto this
  events,          \* per instance: the events it has emitted, in order
  calls,           \* per instance: calls made to the external controller
  lastStop,        \* per instance: how the latest stop() call ended
  listeners,       \* process: per event name, the owners of its listeners
  alive,           \* process: FALSE once the hosting process has terminated
  logged,          \* process: number of logger.error(error) calls of line 62
  signals,         \* process: number of termination signals delivered
  logfile,         \* process: the file the logger writes to
  defaults,        \* module: the shared defaultOptions object
  dirs             \* file system: the directories that exist

vars == <<pc, GatewayAddress, APIAddress, _options, _daemon, api, events, calls,
          lastStop, listeners, alive, logged, signals, logfile, dirs, defaults>>

instVars == <<pc, GatewayAddress, APIAddress, _options, _daemon, api, events,
              calls, lastStop>>

-----------------------------------------------------------------------------
(* Bounds *)

NumInst == 2
MaxLogged == 1
MaxSignals == 1

Inst == 1..NumInst

-----------------------------------------------------------------------------
(* Values *)

\* JavaScript null in a string-valued field.
null == "null"

\* JavaScript null / undefined in an object-valued field.
nullObject == [null |-> TRUE]

defaultOptions ==
  [ IpfsDataDir  |-> "./ipfs",
    LogDirectory |-> "/tmp",
    Addresses    |-> [ API     |-> "/ip4/127.0.0.1/tcp/5001",
                       Swarm   |-> <<"/ip4/0.0.0.0/tcp/4001">>,
                       Gateway |-> "/ip4/0.0.0.0/tcp/8080" ],
    Flags        |-> <<"--enable-pubsub-experiment">> ]

\* Object.assign(target, source) on plain objects: own keys of source replace
\* those of target, whole values at a time.
ObjectAssign(target, source) ==
  [k \in DOMAIN target \cup DOMAIN source |->
     IF k \in DOMAIN source THEN source[k] ELSE target[k]]

EmptyObject == [k \in {} |-> 0]

\* The overlays a caller passes to the constructor.
Overlays == { EmptyObject, [IpfsDataDir |-> "/tmp/x"] }

\* The option object built by the constructor.
MergeOptions(options) == ObjectAssign(ObjectAssign(EmptyObject, defaults), options)

\* s contains p as a substring: what String.prototype.match does with a
\* pattern free of metacharacters.
Contains(s, p) ==
  \E k \in 1..(Len(s) - Len(p) + 1) : SubSeq(s, k, k + Len(p) - 1) = p

InterruptPattern == "non-zero exit code 255"
MigrationPattern == "ipfs repo needs migration"

\* Faults thrown by the JavaScript runtime inside this file.
TypeErrorPath        == "TypeError: Cannot read property 'path' of undefined"
TypeErrorStartDaemon == "TypeError: Cannot read property 'startDaemon' of null"
TypeErrorGatewayAddr == "TypeError: Cannot read property 'gatewayAddr' of null"
TypeErrorStopDaemon  == "TypeError: Cannot read property 'stopDaemon' of null"
ReferenceErrorOpts   == "ReferenceError: opts is not defined"
ListenerError        == "Error: listener failed"

\* What the external controller and the hosting process can report.
LocalErrors == { "Error: controller cannot be built" }
InitErrors  == { "Error: ipfs repo needs migration, please run migration tool",
                 "Error: ipfs configuration file already exists" }
StartErrors == { "Error: daemon failed to start" }
Hosts       == { "127.0.0.1" }
Ports       == { 5001, 5002 }
Gateways    == { null, "", "127.0.0.1:8080" }
Faults      == { "Error: non-zero exit code 255", "Error: non-zero exit code 25" }
Signals     == { "SIGINT", "SIGTERM" }

NoListeners == [ SIGINT |-> <<>>, SIGTERM |-> <<>>, uncaughtException |-> <<>> ]

NoCalls == [ local |-> 0, init |-> 0, start |-> 0, stop |-> 0 ]

-----------------------------------------------------------------------------
(* Initial state: the module is loaded, no instance is constructed. *)

Init ==
  /\ pc = [i \in Inst |-> "Unstarted"]
  /\ GatewayAddress = [i \in Inst |-> null]
  /\ APIAddress = [i \in Inst |-> null]
  /\ _options = [i \in Inst |-> nullObject]
  /\ _daemon = [i \in Inst |-> nullObject]
  /\ api = [i \in Inst |-> FALSE]
  /\ events = [i \in Inst |-> <<>>]
  /\ calls = [i \in Inst |-> NoCalls]
  /\ lastStop = [i \in Inst |-> "none"]
  /\ listeners = NoListeners
  /\ alive = TRUE
  /\ logged = 0
  /\ signals = 0
  /\ logfile = null
  /\ dirs = { "./ipfs" }
  /\ defaults = defaultOptions

-----------------------------------------------------------------------------
(* Helpers shared by the handlers *)

Ev(name, payload) == [name |-> name, payload |-> payload]

\* mkdirp.sync(path): the directories that exist once it has returned.
Ancestors(path) ==
  IF path = "/tmp/x" THEN { "/tmp", "/tmp/x" } ELSE { path }

\* The data directory left as it was found.
EnsureDataDir_Skipped(path) == dirs

\* Lines 45-46: the directories that exist once the data directory is ensured.
EnsureDataDir(path) == dirs \cup Ancestors(path)

\* The overlay written into the shared defaults: Object.assign(defaultOptions, options).
DefaultsAfterMerge_InPlace(options) == ObjectAssign(defaults, options)

\* Line 37: Object.assign({}, defaultOptions) writes into a fresh object, so
\* the shared defaults keep their value.
DefaultsAfterMerge(options) == defaults

\* Line 58: String(error).match(/non-zero exit code 255/)
IsInterrupt(error) == Contains(error, InterruptPattern)

\* Line 90: String(err).match('ipfs repo needs migration')
MigrationNeeded(err) == Contains(err, MigrationPattern)

\* Line 116: truthiness of this._daemon.gatewayAddr
Truthy(s) == s # null /\ s # ""

\* Line 117
FormatGateway(gatewayAddr) == gatewayAddr \o "/ipfs/"

\* The address joined without its separator.
FormatAPIAddress_NoSeparator(apiHost, apiPort) == apiHost \o ToString(apiPort)

\* Line 121: ipfs.apiHost + ':' + ipfs.apiPort
FormatAPIAddress(apiHost, apiPort) == apiHost \o ":" \o ToString(apiPort)

\* The stop request guarded against a missing controller: it never throws.
StopDaemonThrows_Never(i) == FALSE

\* Line 134 throws a TypeError when this._daemon is null or undefined.
StopDaemonThrows(i) == _daemon[i] = nullObject

\* The shutdown path with line 138 left out: the controller reference is kept.
_handleShutdown_KeepsController(S) ==
  /\ calls' = [j \in Inst |->
                 IF j \in S THEN [calls[j] EXCEPT !.stop = @ + 1] ELSE calls[j]]
  /\ GatewayAddress' = [j \in Inst |-> IF j \in S THEN null ELSE GatewayAddress[j]]
  /\ APIAddress' = [j \in Inst |-> IF j \in S THEN null ELSE APIAddress[j]]
  /\ _options' = [j \in Inst |-> IF j \in S THEN nullObject ELSE _options[j]]
  /\ UNCHANGED _daemon
  /\ listeners' = IF S = {} THEN listeners ELSE NoListeners

\* The shutdown path removing only the listeners its own instance registered.
_handleShutdown_OwnListeners(S) ==
  /\ calls' = [j \in Inst |->
                 IF j \in S THEN [calls[j] EXCEPT !.stop = @ + 1] ELSE calls[j]]
  /\ GatewayAddress' = [j \in Inst |-> IF j \in S THEN null ELSE GatewayAddress[j]]
  /\ APIAddress' = [j \in Inst |-> IF j \in S THEN null ELSE APIAddress[j]]
  /\ _options' = [j \in Inst |-> IF j \in S THEN nullObject ELSE _options[j]]
  /\ _daemon' = [j \in Inst |-> IF j \in S THEN nullObject ELSE _daemon[j]]
  /\ listeners' = [e \in DOMAIN listeners |->
                     SelectSeq(listeners[e], LAMBDA j : j \notin S)]

\* Lines 132-143, run to completion on every instance of S: the stop request
\* (134), then the four fields cleared (135-138), then every listener of the
\* three process events removed, whoever registered it (139-141).
_handleShutdown(S) ==
  /\ calls' = [j \in Inst |->
                 IF j \in S THEN [calls[j] EXCEPT !.stop = @ + 1] ELSE calls[j]]
  /\ GatewayAddress' = [j \in Inst |-> IF j \in S THEN null ELSE GatewayAddress[j]]
  /\ APIAddress' = [j \in Inst |-> IF j \in S THEN null ELSE APIAddress[j]]
  /\ _options' = [j \in Inst |-> IF j \in S THEN nullObject ELSE _options[j]]
  /\ _daemon' = [j \in Inst |-> IF j \in S THEN nullObject ELSE _daemon[j]]
  /\ listeners' = IF S = {} THEN listeners ELSE NoListeners

\* Lines 52-53: the instances on which the signal listener registered by
\* instance i runs _handleShutdown.  The listener is () => this._handleShutdown:
\* it evaluates the method and returns it without calling it.
OnSignal(i) == {}

\* The owners of the uncaughtException listeners, in registration order.
FaultOwners == listeners.uncaughtException

\* Lines 56-63 run for every registered owner in turn.  A listener that throws
\* (line 60 reaching line 134 with no controller) ends the dispatch: Node exits
\* the process when an uncaughtException listener throws.
FirstThrow(error) ==
  LET bad == { k \in 1..Len(FaultOwners) :
                 IsInterrupt(error) /\ StopDaemonThrows(FaultOwners[k]) }
  IN  IF bad = {} THEN Len(FaultOwners) + 1
      ELSE CHOOSE k \in bad : \A m \in bad : k <= m

\* The instances shut down by the dispatch of error (line 60).
ShutBy(error) ==
  IF IsInterrupt(error)
    THEN { FaultOwners[k] : k \in 1..(FirstThrow(error) - 1) }
    ELSE {}

\* The number of logger.error calls made by the dispatch of error (line 62).
LoggedBy(error) == IF IsInterrupt(error) THEN 0 ELSE Len(FaultOwners)

\* The process outlives the dispatch: some listener is registered and none throws.
Survives(error) == FaultOwners # <<>> /\ FirstThrow(error) > Len(FaultOwners)

\* An exception thrown by this file inside a callback of the event loop.  None
\* of these messages matches line 58, so every registered listener logs it.
ThrowInCallback(error) ==
  /\ alive' = Survives(error)
  /\ logged' = logged + LoggedBy(error)

\* Lines 68-69: the reactions of the startup chain.
EmitReady(i, listenerThrows) ==
  events' = [events EXCEPT ![i] =
               IF listenerThrows
                 THEN @ \o << Ev("ready", null), Ev("error", ListenerError) >>
                 ELSE Append(@, Ev("ready", null))]

\* emit('error', e) is counted whether or not a listener is attached; with
\* none attached emit throws inside the reaction and the rejection is unhandled.
EmitError(i, e) == events' = [events EXCEPT ![i] = Append(@, Ev("error", e))]

-----------------------------------------------------------------------------
(* Handlers *)

\* The constructor with a failure reported before it returns: an error event
\* is emitted synchronously instead of through the promise chain.
constructor_EmitsBeforeReturn(i, options) ==
  /\ alive
  /\ pc[i] = "Unstarted"
  /\ \A j \in Inst : j < i => pc[j] # "Unstarted"
  /\ defaults' = DefaultsAfterMerge(options)
  /\ LET opts == MergeOptions(options) IN
       /\ dirs' = EnsureDataDir(opts.IpfsDataDir)
       /\ GatewayAddress' = [GatewayAddress EXCEPT ![i] = null]
       /\ APIAddress' = [APIAddress EXCEPT ![i] = null]
       /\ _options' = [_options EXCEPT ![i] = opts]
       /\ _daemon' = [_daemon EXCEPT ![i] = nullObject]
       /\ logfile' = opts.LogDirectory \o "/ipfs-daemon.log"
       /\ listeners' = [e \in DOMAIN listeners |-> Append(listeners[e], i)]
       /\ calls' = [calls EXCEPT ![i].local = @ + 1]
       /\ events' = [events EXCEPT ![i] = Append(@, Ev("error", TypeErrorPath))]
       /\ pc' = [pc EXCEPT ![i] = "Rejected"]
       /\ UNCHANGED <<api, lastStop, alive, logged, signals>>

\* new IpfsDaemon(options), lines 31-70.
constructor(i, options) ==
  /\ alive
  /\ pc[i] = "Unstarted"
  /\ \A j \in Inst : j < i => pc[j] # "Unstarted"
  /\ defaults' = DefaultsAfterMerge(options)
  /\ LET opts == MergeOptions(options) IN
       \/ \* lines 45-46: the directory is missing and mkdirp.sync throws
          /\ opts.IpfsDataDir \notin dirs
          /\ pc' = [pc EXCEPT ![i] = "Aborted"]
          /\ UNCHANGED <<GatewayAddress, APIAddress, _options, _daemon, api, events,
                         calls, lastStop, listeners, alive, logged, signals, logfile,
                         dirs>>
       \/ /\ dirs' = EnsureDataDir(opts.IpfsDataDir)
          /\ GatewayAddress' = [GatewayAddress EXCEPT ![i] = null]
          /\ APIAddress' = [APIAddress EXCEPT ![i] = null]
          /\ _options' = [_options EXCEPT ![i] = opts]
          /\ _daemon' = [_daemon EXCEPT ![i] = nullObject]
          \* line 49: path.join(LogDirectory, '/ipfs-daemon.log')
          /\ logfile' = opts.LogDirectory \o "/ipfs-daemon.log"
          /\ listeners' = [e \in DOMAIN listeners |-> Append(listeners[e], i)]
          \* line 66: _initDaemon() calls ipfsd.local synchronously (line 78)
          /\ calls' = [calls EXCEPT ![i].local = @ + 1]
          /\ pc' = [pc EXCEPT ![i] = "Local"]
          /\ UNCHANGED <<api, events, lastStop, alive, logged, signals>>

\* stop(), lines 72-74.
stop(i) ==
  /\ alive
  /\ pc[i] \notin { "Unstarted", "Aborted" }
  /\ IF StopDaemonThrows(i)
       THEN /\ lastStop' = [lastStop EXCEPT ![i] = TypeErrorStopDaemon]
            /\ UNCHANGED <<GatewayAddress, APIAddress, _options, _daemon, calls,
                           listeners>>
       ELSE /\ _handleShutdown({i})
            /\ lastStop' = [lastStop EXCEPT ![i] = "returned"]
  /\ UNCHANGED <<pc, api, events, alive, logged, signals, logfile, dirs, defaults>>

\* The callback of ipfsd.local going on to the init request after line 80 has
\* rejected, as it does when the controller hands over a node with the error.
LocalCallback_FallsThrough(i, err) ==
  /\ alive
  /\ pc[i] = "Local"
  /\ _daemon' = [_daemon EXCEPT ![i] =
                   [path |-> _options[i].IpfsDataDir, gatewayAddr |-> null]]
  /\ calls' = [calls EXCEPT ![i].init = @ + 1]
  /\ IF err # null
       THEN /\ EmitError(i, err)
            /\ pc' = [pc EXCEPT ![i] = "Rejected"]
       ELSE /\ pc' = [pc EXCEPT ![i] = "Init"]
            /\ UNCHANGED events
  /\ UNCHANGED <<GatewayAddress, APIAddress, _options, api, lastStop, listeners,
                 alive, logged, signals, logfile, dirs, defaults>>

\* The callback of ipfsd.local, lines 78-87.
LocalCallback(i, err) ==
  /\ alive
  /\ pc[i] = "Local"
  /\ IF err # null
       THEN \* line 80 rejects and falls through; node is undefined; line 85 throws
            /\ _daemon' = [_daemon EXCEPT ![i] = nullObject]
            /\ ThrowInCallback(TypeErrorPath)
            /\ pc' = [pc EXCEPT ![i] = "Rejected"]
            /\ IF Survives(TypeErrorPath)
                 THEN EmitError(i, err)        \* line 69
                 ELSE UNCHANGED events
            /\ UNCHANGED calls
       ELSE \* line 82, then the init request of line 87
            /\ _daemon' = [_daemon EXCEPT ![i] =
                             [path |-> _options[i].IpfsDataDir, gatewayAddr |-> null]]
            /\ calls' = [calls EXCEPT ![i].init = @ + 1]
            /\ pc' = [pc EXCEPT ![i] = "Init"]
            /\ UNCHANGED <<events, alive, logged>>
  /\ UNCHANGED <<GatewayAddress, APIAddress, _options, api, lastStop, listeners,
                 signals, logfile, dirs, defaults>>

\* The callback of this._daemon.init, lines 87-104, and on success the
\* reaction of line 67, which runs _startDaemon up to its request (line 112).
InitCallback(i, err) ==
  /\ alive
  /\ pc[i] = "Init"
  /\ IF err # null
       THEN IF MigrationNeeded(err)
              THEN \* line 94 reads opts, which is not in scope
                   /\ ThrowInCallback(ReferenceErrorOpts)
                   /\ pc' = [pc EXCEPT ![i] = "Hung"]
                   /\ UNCHANGED <<events, calls>>
              ELSE \* neither resolve nor reject is called
                   /\ pc' = [pc EXCEPT ![i] = "Hung"]
                   /\ UNCHANGED <<events, calls, alive, logged>>
       ELSE IF _daemon[i] = nullObject
              THEN \* line 112 throws inside the executor: the chain rejects
                   /\ EmitError(i, TypeErrorStartDaemon)
                   /\ pc' = [pc EXCEPT ![i] = "Rejected"]
                   /\ UNCHANGED <<calls, alive, logged>>
              ELSE /\ calls' = [calls EXCEPT ![i].start = @ + 1]
                   /\ pc' = [pc EXCEPT ![i] = "Start"]
                   /\ UNCHANGED <<events, alive, logged>>
  /\ UNCHANGED <<GatewayAddress, APIAddress, _options, _daemon, api, lastStop,
                 listeners, signals, logfile, dirs, defaults>>

\* The callback of this._daemon.startDaemon, lines 112-127, and the reaction
\* of line 68 or 69.  gatewayAddr is what the controller has recorded on the
\* node by now; apiHost and apiPort come with the callback's second argument.
StartCallback(i, err, gatewayAddr, apiHost, apiPort, listenerThrows) ==
  /\ alive
  /\ pc[i] = "Start"
  /\ IF err # null
       THEN /\ EmitError(i, err)
            /\ pc' = [pc EXCEPT ![i] = "Rejected"]
            /\ UNCHANGED <<GatewayAddress, APIAddress, _daemon, api, alive, logged>>
       ELSE IF _daemon[i] = nullObject
              THEN \* line 116 throws outside the executor
                   /\ ThrowInCallback(TypeErrorGatewayAddr)
                   /\ pc' = [pc EXCEPT ![i] = "Hung"]
                   /\ UNCHANGED <<GatewayAddress, APIAddress, _daemon, api, events>>
              ELSE /\ _daemon' = [_daemon EXCEPT ![i].gatewayAddr = gatewayAddr]
                   /\ GatewayAddress' =
                        [GatewayAddress EXCEPT ![i] =
                           IF Truthy(gatewayAddr) THEN FormatGateway(gatewayAddr) ELSE @]
                   /\ api' = [api EXCEPT ![i] = TRUE]
                   /\ APIAddress' =
                        [APIAddress EXCEPT ![i] = FormatAPIAddress(apiHost, apiPort)]
                   /\ EmitReady(i, listenerThrows)
                   /\ pc' = [pc EXCEPT ![i] = "Resolved"]
                   /\ UNCHANGED <<alive, logged>>
  /\ UNCHANGED <<_options, calls, lastStop, listeners, signals, logfile, dirs, defaults>>

\* SIGINT or SIGTERM delivered to the process, lines 52-53.  With no listener
\* registered the default disposition terminates the process.
Signal(sig) ==
  /\ alive
  /\ signals < MaxSignals
  /\ signals' = signals + 1
  /\ alive' = (listeners[sig] # <<>>)
  /\ _handleShutdown(UNION { OnSignal(listeners[sig][k]) : k \in 1..Len(listeners[sig]) })
  /\ UNCHANGED <<pc, api, events, lastStop, logged, logfile, dirs, defaults>>

\* An exception nobody caught, thrown anywhere in the process, lines 56-63.
uncaughtException(error) ==
  /\ alive
  /\ IsInterrupt(error) \/ logged < MaxLogged
  /\ alive' = Survives(error)
  /\ logged' = logged + LoggedBy(error)
  /\ _handleShutdown(ShutBy(error))
  /\ UNCHANGED <<pc, api, events, lastStop, signals, logfile, dirs, defaults>>

-----------------------------------------------------------------------------
(* Specification *)

Construct == \E i \in Inst, options \in Overlays : constructor(i, options)
Stop == \E i \in Inst : stop(i)
OnLocal == \E i \in Inst, err \in LocalErrors \cup {null} : LocalCallback(i, err)
OnInit == \E i \in Inst, err \in InitErrors \cup {null} : InitCallback(i, err)
OnStart ==
  \E i \in Inst, err \in StartErrors \cup {null}, gatewayAddr \in Gateways,
     apiHost \in Hosts, apiPort \in Ports, listenerThrows \in BOOLEAN :
    StartCallback(i, err, gatewayAddr, apiHost, apiPort, listenerThrows)
OnSignalDelivered == \E sig \in Signals : Signal(sig)
OnFault == \E error \in Faults : uncaughtException(error)

Next ==
  \/ Construct
  \/ Stop
  \/ OnLocal
  \/ OnInit
  \/ OnStart
  \/ OnSignalDelivered
  \/ OnFault

Spec == Init /\ [][Next]_vars

-----------------------------------------------------------------------------
(* Vocabulary of the properties *)

ReadyCount(i) == Cardinality({ k \in 1..Len(events[i]) : events[i][k].name = "ready" })
ErrorCount(i) == Cardinality({ k \in 1..Len(events[i]) : events[i][k].name = "error" })

\* The fields _handleShutdown clears are clear on instance i.
Cleared(i) ==
  /\ GatewayAddress[i] = null
  /\ APIAddress[i] = null
  /\ _options[i] = nullObject
  /\ _daemon[i] = nullObject

\* A shutdown of instance i has run to completion.
ShutdownDone(i) == calls[i].stop > 0

\* Instance i has emitted error.
Failed(i) == ErrorCount(i) > 0

\* The address strings a started process stands for, written out.
ExpectedAPIAddress(apiHost, apiPort) ==
  IF apiHost = "127.0.0.1" /\ apiPort = 5001 THEN "127.0.0.1:5001"
  ELSE IF apiHost = "127.0.0.1" /\ apiPort = 5002 THEN "127.0.0.1:5002"
  ELSE "?"

ExpectedGatewayAddress(gatewayAddr) ==
  IF gatewayAddr = "127.0.0.1:8080" THEN "127.0.0.1:8080/ipfs/" ELSE null

-----------------------------------------------------------------------------
(* C1 *)

\* C1: when the start callback completes the fourth phase (the startup chain
\* resolves), the instance has emitted exactly one ready event, APIAddress is
\* "<host>:<port>" of the started process, and GatewayAddress is the reported
\* gateway address followed by /ipfs/, or still null when none is reported;
\* a resolved chain never counts another ready event afterwards.
C1_ReadyAfterStartup ==
  [][\A i \in Inst :
       /\ \A g \in Gateways, h \in Hosts, p \in Ports, t \in BOOLEAN :
            (StartCallback(i, null, g, h, p, t) /\ pc'[i] = "Resolved") =>
              /\ ReadyCount(i)' = 1
              /\ APIAddress'[i] = ExpectedAPIAddress(h, p)
              /\ GatewayAddress'[i] = ExpectedGatewayAddress(g)
       /\ pc[i] = "Resolved" => ReadyCount(i)' = 1 /\ ReadyCount(i) = 1
    ]_vars

C1_Witness ==
  \E i \in Inst :
    /\ pc[i] = "Resolved"
    /\ ReadyCount(i) = 1
    /\ APIAddress[i] = "127.0.0.1:5002"
    /\ GatewayAddress[i] = "127.0.0.1:8080/ipfs/"

-----------------------------------------------------------------------------
(* C2 - C5 *)

\* C2: a stop() call that follows a stop() call which returned raises no
\* fault, finds the fields cleared, and makes no further stop request to the
\* daemon process.
C2_SecondStopIsSafe ==
  [][\A i \in Inst :
       (stop(i) /\ lastStop[i] = "returned") =>
         /\ lastStop'[i] = "returned"
         /\ Cleared(i)'
         /\ calls'[i].stop = calls[i].stop
    ]_vars

\* An instance that holds its controller, with its listeners registered.
Live(i) ==
  /\ _daemon[i] # nullObject
  /\ \A e \in DOMAIN listeners : \E k \in 1..Len(listeners[e]) : listeners[e][k] = i

\* C3: a SIGINT or SIGTERM delivered while an instance is live asks its daemon
\* process to stop and clears its addresses, configuration and controller
\* reference, as stop() does.
C3_SignalTriggersShutdown ==
  [][\A sig \in Signals, i \in Inst :
       (Signal(sig) /\ Live(i)) =>
         /\ calls'[i].stop = calls[i].stop + 1
         /\ Cleared(i)'
    ]_vars

\* C4: when repository initialization fails with a message containing "ipfs
\* repo needs migration", the instance emits an error event whose text names
\* the configured data directory and the $IPFS_PATH override.
C4_MigrationErrorEvent ==
  [][\A i \in Inst, err \in InitErrors :
       (InitCallback(i, err) /\ Contains(err, "ipfs repo needs migration")) =>
         /\ Len(events'[i]) = Len(events[i]) + 1
         /\ LET e == events'[i][Len(events'[i])] IN
              /\ e.name = "error"
              /\ Contains(e.payload, "ipfs repo needs migration")
              /\ Contains(e.payload, _options[i].IpfsDataDir)
              /\ Contains(e.payload, "$IPFS_PATH")
    ]_vars

\* C5: when repository initialization fails with a message that does not
\* contain "ipfs repo needs migration", the instance emits an error event
\* carrying that message unchanged, and the startup chain is settled.
C5_OtherInitErrorSurfaced ==
  [][\A i \in Inst, err \in InitErrors :
       (InitCallback(i, err) /\ ~Contains(err, "ipfs repo needs migration")) =>
         /\ events'[i] = Append(events[i], Ev("error", err))
         /\ pc'[i] # "Hung"
    ]_vars

-----------------------------------------------------------------------------
(* C6 - C10 *)

\* Instance i is Ready: its startup chain resolved and no shutdown has run on it.
Ready(i) == pc[i] = "Resolved" /\ ~ShutdownDone(i) /\ Live(i)

\* C6: an uncaught fault whose message contains "non-zero exit code 255" shuts
\* a Ready instance down as stop() does (stop request, fields cleared,
\* listeners removed); a fault with any other message is logged and leaves a
\* Ready instance, its fields and the listener registrations unchanged, with
\* the process still running.
C6_FaultHandling ==
  [][\A error \in Faults, i \in Inst :
       (uncaughtException(error) /\ Ready(i)) =>
         IF Contains(error, "non-zero exit code 255")
           THEN /\ calls'[i].stop = calls[i].stop + 1
                /\ Cleared(i)'
                /\ listeners' = NoListeners
           ELSE /\ logged' > logged
                /\ alive'
                /\ UNCHANGED <<instVars, listeners>>
    ]_vars

\* C7: an instance emits at most one terminal event (ready or error).
C7_OneTerminalEvent == \A i \in Inst : ReadyCount(i) + ErrorCount(i) <= 1

\* C8: a failure of controller construction or of daemon start emits an error
\* event carrying the cause unchanged, and attempts no later phase: no init
\* request after a controller failure, no API client and no address after a
\* start failure.
C8_FailureStopsStartup ==
  [][\A i \in Inst :
       /\ \A err \in LocalErrors :
            LocalCallback(i, err) =>
              /\ events'[i] = Append(events[i], Ev("error", err))
              /\ calls'[i].init = 0
       /\ \A err \in StartErrors, g \in Gateways, h \in Hosts, p \in Ports, t \in BOOLEAN :
            StartCallback(i, err, g, h, p, t) =>
              /\ events'[i] = Append(events[i], Ev("error", err))
              /\ ~api'[i]
              /\ APIAddress'[i] = null /\ GatewayAddress'[i] = null
       /\ (Failed(i) /\ pc[i] = "Rejected") =>
            /\ calls'[i].init = calls[i].init
            /\ calls'[i].start = calls[i].start
            /\ api'[i] = api[i]
    ]_vars

\* C9: once a shutdown of an instance has completed, or the instance has
\* emitted error, it emits no ready event in any later step.
C9_NoReadyAfterStopOrFail ==
  [][\A i \in Inst :
       (ShutdownDone(i) \/ Failed(i)) => ReadyCount(i)' = ReadyCount(i)
    ]_vars

\* A shutdown completed while the start request was in flight, and the start
\* callback has since reported success.
C9_Witness ==
  \E i \in Inst :
    /\ ShutdownDone(i)
    /\ pc[i] = "Hung"
    /\ calls[i].start = 1
    /\ ReadyCount(i) = 0

\* C10: every run of the shutdown path on a constructed instance completes its
\* three steps (stop request, fields cleared, listeners deregistered), and an
\* instance constructed after another one was stopped finds itself the owner
\* of the only listener of each event.
C10_ShutdownCompletes ==
  [][\A i \in Inst :
       /\ stop(i) =>
            /\ calls'[i].stop = calls[i].stop + 1
            /\ Cleared(i)'
            /\ listeners' = NoListeners
       /\ \A options \in Overlays :
            ( /\ constructor(i, options)
              /\ pc'[i] = "Local"
              /\ \A j \in Inst : (j # i /\ pc[j] \notin {"Unstarted", "Aborted"})
                                   => lastStop[j] # "none" ) =>
              \A e \in DOMAIN listeners : listeners'[e] = <<i>>
    ]_vars

-----------------------------------------------------------------------------
(* C11 - C13 *)

\* C11: the startup phases run strictly in sequence.  The init request is made
\* only in the step in which the controller callback reports success, the
\* start request only in the step in which the init callback reports success,
\* and the API client is merged and the address recorded only in the step in
\* which the start callback reports success; each request is made once.
C11_PhasesSequential ==
  [][\A i \in Inst :
       /\ calls'[i].local # calls[i].local =>
            /\ pc[i] = "Unstarted"
            /\ calls'[i] = [NoCalls EXCEPT !.local = 1]
       /\ calls'[i].init # calls[i].init =>
            /\ pc[i] = "Local" /\ calls[i].local = 1
            /\ LocalCallback(i, null)
            /\ calls'[i].init = 1 /\ calls'[i].start = 0
       /\ calls'[i].start # calls[i].start =>
            /\ pc[i] = "Init" /\ calls[i].init = 1
            /\ InitCallback(i, null)
            /\ calls'[i].start = 1
       /\ (api'[i] # api[i] \/ (APIAddress[i] = null /\ APIAddress'[i] # null)) =>
            /\ pc[i] = "Start" /\ calls[i].start = 1
            /\ \E g \in Gateways, h \in Hosts, p \in Ports, t \in BOOLEAN :
                 StartCallback(i, null, g, h, p, t)
    ]_vars

C11_Witness ==
  \E i \in Inst :
    /\ calls[i].local = 1 /\ calls[i].init = 1 /\ calls[i].start = 1
    /\ api[i]
    /\ APIAddress[i] # null
    /\ pc[i] = "Resolved"

\* The startup chain of instance i is not settled yet.
Unsettled(i) == pc[i] \in { "Local", "Init", "Start" }

\* C12: no shutdown (by stop(), a signal or a fault) writes the state record
\* of an instance while its startup chain is still unsettled.
C12_NoShutdownDuringStartup ==
  [][\A i \in Inst :
       Unsettled(i) =>
         /\ calls'[i].stop = calls[i].stop
         /\ (_daemon[i] # nullObject => _daemon'[i] # nullObject)
         /\ (_options[i] # nullObject => _options'[i] # nullObject)
    ]_vars

\* C13: the constructor emits no event: when it returns the instance has
\* emitted nothing, and its terminal event is emitted by a later step, which
\* a listener attached right after construction observes.
C13_NoEventBeforeReturn ==
  [][\A i \in Inst :
       /\ \A options \in Overlays :
            constructor(i, options) => events'[i] = <<>> /\ events[i] = <<>>
       /\ events'[i] # events[i] =>
            /\ pc[i] \in { "Local", "Init", "Start" }
            /\ calls[i].local = 1
    ]_vars

C13_Witness ==
  \E i \in Inst :
    /\ pc[i] = "Local"
    /\ calls[i].local = 1
    /\ events[i] = <<>>
    /\ \A e \in DOMAIN listeners : \E k \in 1..Len(listeners[e]) : listeners[e][k] = i

-----------------------------------------------------------------------------
(* C14: the configuration overlay, over every subset of the recognized keys *)

RecognizedKeys == { "IpfsDataDir", "LogDirectory", "Addresses", "Flags" }

\* One override per recognized key, each different from its default; the
\* Addresses override carries the API address alone.
OverrideValues ==
  [ IpfsDataDir  |-> "/tmp/x",
    LogDirectory |-> "/var/log",
    Addresses    |-> [ API |-> "/ip4/127.0.0.1/tcp/0" ],
    Flags        |-> <<>> ]

AllOverlays == { [k \in K |-> OverrideValues[k]] : K \in SUBSET RecognizedKeys }

\* Instances constructed one after the other, each with any overlay.
ConstructAny == \E i \in Inst, options \in AllOverlays : constructor(i, options)

SpecConfig == Init /\ [][ConstructAny]_vars

\* C14: for every overlay over a subset of the recognized keys, the effective
\* configuration has exactly the recognized keys, each with the overlay's
\* value when the overlay has the key (a supplied Addresses object as a
\* whole) and the documented default otherwise, and the shared defaults keep
\* their documented values for the instances constructed later.
C14_ShallowOverlay ==
  [][\A i \in Inst, options \in AllOverlays :
       constructor(i, options) =>
         /\ defaults = defaultOptions
         /\ defaults' = defaultOptions
         /\ pc'[i] = "Local" =>
              /\ DOMAIN _options'[i] = RecognizedKeys
              /\ \A k \in RecognizedKeys :
                   _options'[i][k] =
                     IF k \in DOMAIN options THEN options[k] ELSE defaultOptions[k]
    ]_vars

C14_Witness ==
  /\ pc[1] = "Local"
  /\ pc[2] = "Local"
  /\ _options[1].IpfsDataDir = "/tmp/x"
  /\ _options[1].Addresses = [ API |-> "/ip4/127.0.0.1/tcp/0" ]
  /\ _options[1].Flags = defaultOptions.Flags
  /\ _options[2] = defaultOptions

-----------------------------------------------------------------------------
(* C15 - C18 *)

\* The listeners of every process event that instance i registered are in place.
Registered(i) ==
  \A e \in DOMAIN listeners : \E k \in 1..Len(listeners[e]) : listeners[e][k] = i

\* C15: once the first startup phase of an instance has begun, its data
\* directory exists together with its parents, also when it did not exist
\* before construction; an instance whose construction aborted on the
\* directory has made no request to the controller, emitted nothing and
\* registered nothing.
C15_DataDirBeforeStartup ==
  \A i \in Inst :
    /\ (calls[i].local > 0 /\ _options[i] # nullObject) =>
         /\ _options[i].IpfsDataDir \in dirs
         /\ (_options[i].IpfsDataDir = "/tmp/x" => "/tmp" \in dirs)
    /\ pc[i] = "Aborted" =>
         /\ calls[i] = NoCalls
         /\ events[i] = <<>>
         /\ _options[i] = nullObject
         /\ \A e \in DOMAIN listeners : \A k \in 1..Len(listeners[e]) : listeners[e][k] # i

C15_Witness ==
  \E i, j \in Inst :
    /\ calls[i].local = 1
    /\ _options[i] # nullObject
    /\ _options[i].IpfsDataDir = "/tmp/x"
    /\ { "/tmp", "/tmp/x" } \subseteq dirs
    /\ pc[j] = "Aborted"

\* C16: once a shutdown of an instance has completed, its GatewayAddress and
\* APIAddress are null and stay null, and no API client is merged onto it, in
\* every later step, the start callback that was in flight included.
C16_AddressesStayNull ==
  [][\A i \in Inst :
       ShutdownDone(i) =>
         /\ GatewayAddress[i] = null /\ APIAddress[i] = null
         /\ GatewayAddress'[i] = null /\ APIAddress'[i] = null
         /\ api'[i] = api[i]
    ]_vars

C16_Witness ==
  \E i \in Inst :
    /\ ShutdownDone(i)
    /\ calls[i].start = 1
    /\ pc[i] = "Hung"
    /\ ~api[i]
    /\ APIAddress[i] = null /\ GatewayAddress[i] = null

\* Instance i has its listeners registered and holds no controller.
NoController(i) == Registered(i) /\ _daemon[i] = nullObject

\* The fields and registrations the shutdown path writes are as they were.
ShutdownWroteNothing(i) ==
  /\ GatewayAddress'[i] = GatewayAddress[i]
  /\ APIAddress'[i] = APIAddress[i]
  /\ _options'[i] = _options[i]
  /\ _daemon'[i] = _daemon[i]
  /\ calls'[i] = calls[i]

C18_DeregistrationIsGlobal ==
  [][/\ (\E i \in Inst : calls'[i].stop > calls[i].stop) => listeners' = NoListeners
     /\ \A error \in Faults :
          (uncaughtException(error) /\ listeners = NoListeners) =>
            calls' = calls /\ _daemon' = _daemon /\ ~alive'
     /\ \A sig \in Signals :
          (Signal(sig) /\ listeners = NoListeners) =>
            calls' = calls /\ _daemon' = _daemon /\ ~alive'
     /\ \A i \in Inst, options \in Overlays :
          (constructor(i, options) /\ pc'[i] = "Local") =>
            \A e \in DOMAIN listeners : listeners'[e] = Append(listeners[e], i)
    ]_vars

\* One instance has completed shutdown, another still holds its controller,
\* and no listener is left.
C18_Witness ==
  \E i, j \in Inst :
    /\ i # j
    /\ ShutdownDone(i)
    /\ _daemon[j] # nullObject
    /\ pc[j] = "Resolved"
    /\ listeners = NoListeners
    /\ alive

====
